---- MODULE Spec2Model ----
(***************************************************************************)
(* State machine of the session controller in frontend/src/App.jsx: the    *)
(* React state of App, the three event handlers handleSend, handleSearch   *)
(* and handleIngest, the startup effect, and the five fetch helpers.       *)
(*                                                                         *)
(* A handler runs to its first await in one step (JavaScript runs it       *)
(* without interruption and React commits the state updates before the     *)
(* next event is dispatched); the code after the await runs in a second    *)
(* step when the backend answers.  Requests in flight are kept in one set  *)
(* per endpoint and may be answered in any order.                          *)
(***************************************************************************)
EXTENDS Integers, Sequences, FiniteSets, TLC

VARIABLES
    tab,            \* useState("chat")           l.153
    health,         \* useState(null)             l.154
    messages,       \* useState([greeting])       l.155
    input,          \* useState("")               l.158
    loading,        \* useState(false)            l.159
    searchQuery,    \* useState("")               l.160
    searchResults,  \* useState([])               l.161
    searchK,        \* useState(5)                l.162
    searchLoading,  \* useState(false)            l.163
    ingestFile,     \* useState(null)             l.164
    ingestStatus,   \* useState(null)             l.165
    ingestLoading,  \* useState(false)            l.166
    stats,          \* useState(null)             l.167
    queryReqs,      \* POST /query requests awaiting their response
    searchReqs,     \* POST /search requests awaiting their response
    ingestReqs,     \* POST /ingest requests awaiting their response
    healthReqs,     \* GET /health requests awaiting their response
    statsReqs,      \* GET /stats requests awaiting their response
    issued,         \* history: how many requests each handler has issued
    rendered        \* the confidence badges rendered so far

vars == <<tab, health, messages, input, loading, searchQuery, searchResults,
          searchK, searchLoading, ingestFile, ingestStatus, ingestLoading,
          stats, queryReqs, searchReqs, ingestReqs, healthReqs, statsReqs,
          issued, rendered>>

chatVars   == <<messages, input, loading, queryReqs, rendered>>
searchVars == <<searchQuery, searchResults, searchK, searchLoading, searchReqs>>
ingestVars == <<ingestFile, ingestStatus, ingestLoading, ingestReqs>>
monitorVars == <<health, stats, healthReqs, statsReqs>>

(***************************************************************************)
(* Bounds of the model.                                                    *)
(***************************************************************************)
\* Chat submits, searches and ingests the user gets accepted when one
\* controller is explored alone.
MaxSubmits == 2
MaxSearches == 2
MaxIngests == 2
\* Requests of all three kinds together when the whole application is explored.
MaxOps == 1
\* Badges rendered in the specification of the badge component.
MaxBadges == 3

(***************************************************************************)
(* JavaScript values.  A text is a sequence of characters; fixed strings   *)
(* of the program are kept as one-element texts.  An optional value is     *)
(* <<>> when undefined/null and <<v>> when it is v.                        *)
(***************************************************************************)
\* The texts the user types: empty, blank, plain and padded.
Texts == {<<>>, <<" ">>, <<"a">>, <<" ", "a", " ">>}

Undefined == <<>>
Some(v) == <<v>>
IsDefined(o) == o # Undefined
\* JavaScript truthiness of an optional text: undefined and "" are falsy.
TruthyText(o) == IsDefined(o) /\ o[1] # <<>>
\* JavaScript truthiness of an optional boolean.
TruthyBool(o) == IsDefined(o) /\ o[1]

\* String.prototype.trim on the model's alphabet.
RECURSIVE TrimStart(_)
TrimStart(s) ==
    IF s # <<>> /\ Head(s) = " " THEN TrimStart(Tail(s)) ELSE s
RECURSIVE TrimEnd(_)
TrimEnd(s) ==
    IF s # <<>> /\ s[Len(s)] = " " THEN TrimEnd(SubSeq(s, 1, Len(s) - 1)) ELSE s
Trim(s) == TrimEnd(TrimStart(s))

(***************************************************************************)
(* What the backend can answer.  fetch rejects when the host is            *)
(* unreachable; otherwise it resolves whatever the HTTP status is, and     *)
(* r.json() rejects when the body is not JSON.                             *)
(***************************************************************************)
Unreachable(noBody) ==
    [reach |-> FALSE, ok |-> FALSE, json |-> FALSE, body |-> noBody]
Http(ok, body) ==
    [reach |-> TRUE, ok |-> ok, json |-> TRUE, body |-> body]
HttpNotJson(ok, noBody) ==
    [reach |-> TRUE, ok |-> ok, json |-> FALSE, body |-> noBody]

FailedToFetch == <<"Failed to fetch">>       \* TypeError of fetch
UnexpectedToken == <<"Unexpected token">>    \* SyntaxError of r.json()

\* const r = await fetch(...); return r.json();  -- r.ok is never read.
apiCall(resp) ==
    IF ~resp.reach THEN [rejected |-> TRUE, message |-> FailedToFetch, value |-> resp.body]
    ELSE IF ~resp.json THEN [rejected |-> TRUE, message |-> UnexpectedToken, value |-> resp.body]
    ELSE [rejected |-> FALSE, message |-> <<>>, value |-> resp.body]

\* ---- POST /query ----
Source27 == [article_number |-> "27", article |-> "Equality before law", content |-> "..."]

QueryBody(answer, sources, cites, conf, error) ==
    [answer |-> answer, sources |-> sources, verified_citations |-> cites,
     cross_references |-> Undefined, confidence |-> conf, error |-> error]

\* A body without any of the fields the client reads, e.g. {"detail": "..."}.
QueryDetail == QueryBody(Undefined, Undefined, Undefined, Undefined, Undefined)
QueryAnswer == QueryBody(Some(<<"a">>), Some(<<Source27>>), Some(<<"27">>), Some("high"), Undefined)
QueryError  == QueryBody(Undefined, Undefined, Undefined, Undefined, Some(<<"e">>))

QueryResponses ==
    {Unreachable(QueryDetail), HttpNotJson(TRUE, QueryDetail), HttpNotJson(FALSE, QueryDetail),
     Http(TRUE, QueryAnswer), Http(TRUE, QueryError),
     Http(FALSE, QueryDetail), Http(FALSE, QueryError)}

(***************************************************************************)
(* The conversation log.                                                   *)
(***************************************************************************)
Message(role, content, sources, cites, xrefs, conf) ==
    [role |-> role, content |-> content, sources |-> sources,
     verified_citations |-> cites, cross_references |-> xrefs, confidence |-> conf]

Greeting == Message("assistant", Some(<<"As-salamu alaykum!">>),
                    Undefined, Undefined, Undefined, Undefined)

UserMessage(question) ==
    Message("user", Some(question), Undefined, Undefined, Undefined, Undefined)

\* { role: "assistant", content: `Error: ${e.message}` }
ErrorMessage(message) ==
    Message("assistant", Some(<<"Error: ">> \o message),
            Undefined, Undefined, Undefined, Undefined)

\* { role: "assistant", content: res.answer, sources: res.sources, ... }
AnswerMessage(res) ==
    Message("assistant", res.answer, res.sources, res.verified_citations,
            res.cross_references, res.confidence)

(***************************************************************************)
(* ConfidenceBadge.                                                        *)
(***************************************************************************)
Descriptor(label, color, bg) == [label |-> label, color |-> color, bg |-> bg]

\* const map = { high: {...}, medium: {...}, low: {...} }
map ==
    [high   |-> Descriptor(Some("High Confidence"), Some("#10b981"), Some("rgba(16,185,129,0.12)")),
     medium |-> Descriptor(Some("Medium Confidence"), Some("#f59e0b"), Some("rgba(245,158,11,0.12)")),
     low    |-> Descriptor(Some("Low Confidence"), Some("#ef4444"), Some("rgba(239,68,68,0.12)"))]

\* map is an object literal: besides its own keys it answers the property
\* names of Object.prototype, with functions that have no label, color or bg.
ObjectPrototype ==
    {"constructor", "toString", "toLocaleString", "valueOf", "hasOwnProperty",
     "isPrototypeOf", "propertyIsEnumerable", "__proto__"}
Inherited == Descriptor(Undefined, Undefined, Undefined)

\* The property key of a prop value: a missing prop reads map["undefined"].
PropertyKey(confidence) == IF IsDefined(confidence) THEN confidence[1] ELSE "undefined"

\* map[confidence]
mapGet(confidence) ==
    LET key == PropertyKey(confidence) IN
    IF key \in DOMAIN map THEN Some(map[key])
    ELSE IF key \in ObjectPrototype THEN Some(Inherited)
    ELSE Undefined

\* const c = map[confidence] || map.medium;  the span shows c.label in c.color
ConfidenceBadge(confidence) ==
    IF IsDefined(mapGet(confidence)) THEN mapGet(confidence)[1] ELSE map.medium

\* Values of the confidence prop: missing, the three labels, the empty text,
\* unknown labels, and labels that are property names of every object.
Confidences ==
    {Undefined, Some("high"), Some("medium"), Some("low"), Some(""),
     Some("unknown"), Some("HIGH"), Some("constructor"), Some("toString")}

\* <ConfidenceBadge confidence={confidence} /> is rendered.
renderBadge(confidence) ==
    /\ rendered' = Append(rendered, [confidence |-> confidence,
                                      badge |-> ConfidenceBadge(confidence)])
    /\ UNCHANGED <<tab, messages, input, loading, queryReqs, searchVars, ingestVars,
                   monitorVars, issued>>

Init ==
    /\ tab = "chat"
    /\ health = Undefined
    /\ messages = <<Greeting>>
    /\ input = <<>>
    /\ loading = FALSE
    /\ searchQuery = <<>>
    /\ searchResults = <<>>
    /\ searchK = 5
    /\ searchLoading = FALSE
    /\ ingestFile = Undefined
    /\ ingestStatus = Undefined
    /\ ingestLoading = FALSE
    /\ stats = Undefined
    /\ queryReqs = {}
    /\ searchReqs = {}
    /\ ingestReqs = {}
    \* the startup effect has run: both calls are in flight
    /\ healthReqs = {[id |-> 0, origin |-> "startup"]}
    /\ statsReqs = {[id |-> 0, origin |-> "startup"]}
    /\ issued = [query |-> 0, search |-> 0, ingest |-> 0]
    /\ rendered = <<>>

(***************************************************************************)
(* Header: the tab buttons.                                                *)
(***************************************************************************)
Tabs == {"chat", "search", "ingest", "stats"}

\* Faulty variants: a tab change resets the conversation; a tab change aborts
\* the outstanding requests.
setTabResetsLog(t) ==
    /\ t # tab
    /\ tab' = t
    /\ messages' = <<Greeting>>
    /\ UNCHANGED <<input, loading, queryReqs, rendered, searchVars, ingestVars,
                   monitorVars, issued>>
setTabCancels(t) ==
    /\ t # tab
    /\ tab' = t
    /\ queryReqs' = {}
    /\ searchReqs' = {}
    /\ ingestReqs' = {}
    /\ UNCHANGED <<messages, input, loading, searchQuery, searchResults, searchK,
                   searchLoading, ingestFile, ingestStatus, ingestLoading,
                   monitorVars, issued, rendered>>

\* onClick={() => setTab(t.id)}
setTab(t) ==
    /\ t # tab
    /\ tab' = t
    /\ UNCHANGED <<chatVars, searchVars, ingestVars, monitorVars, issued>>

(***************************************************************************)
(* Chat tab.                                                               *)
(***************************************************************************)
\* <textarea value={input} onChange={e => setInput(e.target.value)}>
setInput(text) ==
    /\ tab = "chat"
    /\ text # input
    /\ input' = text
    /\ UNCHANGED <<tab, messages, loading, queryReqs, rendered, searchVars, ingestVars,
                   monitorVars, issued>>

\* Faulty variants of the guard of handleSend: one without trim, one without
\* the loading test.
sendBlockedNoTrim(draft, busy) == draft = <<>> \/ busy
sendBlockedNotBusy(draft, busy) == Trim(draft) = <<>>

\* if (!input.trim() || loading) return;
sendBlocked(draft, busy) == Trim(draft) = <<>> \/ busy

\* handleSend up to the await: Enter in the textarea or the Ask button.
handleSend ==
    /\ tab = "chat"
    /\ IF sendBlocked(input, loading)
       THEN UNCHANGED <<chatVars, issued>>
       ELSE LET question == Trim(input) IN
            /\ input' = <<>>
            /\ messages' = Append(messages, UserMessage(question))
            /\ loading' = TRUE
            /\ queryReqs' = queryReqs \cup {[id |-> issued.query + 1, question |-> question]}
            /\ issued' = [issued EXCEPT !.query = @ + 1]
            /\ UNCHANGED rendered
    /\ UNCHANGED <<tab, searchVars, ingestVars, monitorVars>>

\* Faulty variants of the catch block: one forgets the message, one overwrites
\* the user message with it.
sendFailedSilent(log, message) == log
sendFailedOverwrite(log, message) ==
    Append(SubSeq(log, 1, Len(log) - 1), ErrorMessage(message))

\* catch (e) { setMessages(m => [...m, { role: "assistant", content: `Error: ...` }]) }
sendFailed(log, message) == Append(log, ErrorMessage(message))

\* try { res = await apiQuery(question); if (res.error) throw ...; setMessages(...) }
sendSettled(log, out) ==
    IF out.rejected THEN sendFailed(log, out.message)
    ELSE IF TruthyText(out.value.error) THEN sendFailed(log, out.value.error[1])
    ELSE Append(log, AnswerMessage(out.value))

\* Faulty variant: the flag is reset at the end of the try block only.
sendFinallyTryOnly(out, busy) == IF out.rejected THEN busy ELSE FALSE

\* finally { setLoading(false); }
sendFinally(out, busy) == FALSE

\* handleSend from the await on: the response of req arrives.
handleSendResume(req, resp) ==
    /\ req \in queryReqs
    /\ queryReqs' = queryReqs \ {req}
    /\ messages' = sendSettled(messages, apiCall(resp))
    /\ loading' = sendFinally(apiCall(resp), loading)
    /\ UNCHANGED <<tab, input, rendered, searchVars, ingestVars, monitorVars, issued>>

(***************************************************************************)
(* Search tab.                                                             *)
(***************************************************************************)
\* ---- POST /search ----
Result(n) == [article_number |-> n, article |-> "Citizenship", content |-> "..."]

SearchBody(results) == [results |-> results]
SearchDetail == SearchBody(Undefined)

SearchResponses ==
    {Unreachable(SearchDetail), HttpNotJson(FALSE, SearchDetail), Http(FALSE, SearchDetail),
     Http(TRUE, SearchDetail), Http(TRUE, SearchBody(Some(<<>>))),
     Http(TRUE, SearchBody(Some(<<Result("6")>>))),
     Http(TRUE, SearchBody(Some(<<Result("6"), Result("7")>>)))}

\* {[3,5,8,10].map(n => <option key={n} value={n}>{n} results</option>)}
KOptions == {3, 5, 8, 10}

\* <input value={searchQuery} onChange={e => setSearchQuery(e.target.value)}>
setSearchQuery(text) ==
    /\ tab = "search"
    /\ text # searchQuery
    /\ searchQuery' = text
    /\ UNCHANGED <<tab, searchResults, searchK, searchLoading, searchReqs,
                   chatVars, ingestVars, monitorVars, issued>>

\* <select value={searchK} onChange={e => setSearchK(Number(e.target.value))}>
setSearchK(k) ==
    /\ tab = "search"
    /\ k # searchK
    /\ searchK' = k
    /\ UNCHANGED <<tab, searchQuery, searchResults, searchLoading, searchReqs,
                   chatVars, ingestVars, monitorVars, issued>>

\* if (!searchQuery.trim()) return;  -- searchLoading is not read.
searchBlocked(query, busy) == Trim(query) = <<>>

\* Faulty variant: the previous results are not cleared at invocation.
handleSearchKeepsResults ==
    /\ IF searchBlocked(searchQuery, searchLoading)
       THEN UNCHANGED <<searchVars, issued>>
       ELSE /\ searchLoading' = TRUE
            /\ searchReqs' = searchReqs \cup
                   {[id |-> issued.search + 1, query |-> searchQuery, k |-> searchK]}
            /\ issued' = [issued EXCEPT !.search = @ + 1]
            /\ UNCHANGED <<searchQuery, searchK, searchResults>>
    /\ UNCHANGED <<tab, chatVars, ingestVars, monitorVars>>

\* handleSearch up to the await.
handleSearch ==
    /\ IF searchBlocked(searchQuery, searchLoading)
       THEN UNCHANGED <<searchVars, issued>>
       ELSE /\ searchLoading' = TRUE
            /\ searchResults' = <<>>
            /\ searchReqs' = searchReqs \cup
                   {[id |-> issued.search + 1, query |-> searchQuery, k |-> searchK]}
            /\ issued' = [issued EXCEPT !.search = @ + 1]
            /\ UNCHANGED <<searchQuery, searchK>>
    /\ UNCHANGED <<tab, chatVars, ingestVars, monitorVars>>

\* onKeyDown={e => e.key === "Enter" && handleSearch()}
searchKeyDownEnter ==
    /\ tab = "search"
    /\ handleSearch

\* <button onClick={handleSearch} disabled={searchLoading}>
searchButtonClick ==
    /\ tab = "search"
    /\ ~searchLoading
    /\ handleSearch

\* try { setSearchResults(res.results || []) } catch (e) { setSearchResults([]) }
searchSettled(out) ==
    IF out.rejected THEN <<>>
    ELSE IF IsDefined(out.value.results) THEN out.value.results[1]
    ELSE <<>>

\* Faulty variant: the flag is reset at the end of the try block only.
handleSearchResumeTryOnly(req, resp) ==
    /\ req \in searchReqs
    /\ searchReqs' = searchReqs \ {req}
    /\ searchResults' = searchSettled(apiCall(resp))
    /\ searchLoading' = (IF apiCall(resp).rejected THEN searchLoading ELSE FALSE)
    /\ UNCHANGED <<tab, searchQuery, searchK, chatVars, ingestVars, monitorVars, issued>>

\* handleSearch from the await on: the response of req arrives.
handleSearchResume(req, resp) ==
    /\ req \in searchReqs
    /\ searchReqs' = searchReqs \ {req}
    /\ searchResults' = searchSettled(apiCall(resp))
    /\ searchLoading' = FALSE                   \* finally
    /\ UNCHANGED <<tab, searchQuery, searchK, chatVars, ingestVars, monitorVars, issued>>

\* {searchResults.length === 0 && !searchLoading && searchQuery && (<p>No results found...)}
\* inside {tab === "search" && (...)}
noResultsShown ==
    /\ tab = "search"
    /\ Len(searchResults) = 0
    /\ ~searchLoading
    /\ searchQuery # <<>>

(***************************************************************************)
(* Ingest tab and the health and stats calls.                              *)
(***************************************************************************)
\* ---- GET /health ----
HealthBody(status, docs, llm) ==
    [status |-> status, documents_loaded |-> docs, llm_available |-> llm]
HealthDetail == HealthBody(Undefined, Undefined, Undefined)
Healthy  == HealthBody(Some("healthy"), Some(TRUE), Some(TRUE))
Degraded == HealthBody(Some("degraded"), Some(FALSE), Some(TRUE))
\* { status: "unreachable" }
HealthUnreachable == HealthBody(Some("unreachable"), Undefined, Undefined)

HealthResponses ==
    {Unreachable(HealthDetail), HttpNotJson(FALSE, HealthDetail), Http(FALSE, HealthDetail),
     Http(TRUE, Healthy), Http(TRUE, Degraded)}

\* ---- GET /stats ----
StatsBody(docs, articles) ==
    [documents_loaded |-> docs, articles_indexed |-> articles,
     llm_provider |-> Some("gemini"), storage_type |-> Some("memory"),
     llm_available |-> Some(TRUE)]
StatsDetail ==
    [documents_loaded |-> Undefined, articles_indexed |-> Undefined,
     llm_provider |-> Undefined, storage_type |-> Undefined,
     llm_available |-> Undefined]

StatsResponses ==
    {Unreachable(StatsDetail), HttpNotJson(FALSE, StatsDetail), Http(FALSE, StatsDetail),
     Http(TRUE, StatsBody(Some(0), Some(0))), Http(TRUE, StatsBody(Some(1), Some(153)))}

\* ---- POST /ingest ----
IngestBody(success, message, processed) ==
    [success |-> success, message |-> message, documents_processed |-> processed]
IngestDetail == IngestBody(Undefined, Undefined, Undefined)

IngestResponses ==
    {Unreachable(IngestDetail), HttpNotJson(FALSE, IngestDetail), Http(FALSE, IngestDetail),
     Http(TRUE, IngestBody(Some(TRUE), Some(<<"indexed">>), Some(3))),
     Http(TRUE, IngestBody(Some(FALSE), Some(<<"unsupported encoding">>), Undefined))}

Files == {Undefined, Some("constitution.txt")}

\* <input type="file" onChange={e => setIngestFile(e.target.files[0])}>
setIngestFile(file) ==
    /\ tab = "ingest"
    /\ file # ingestFile
    /\ ingestFile' = file
    /\ UNCHANGED <<tab, ingestStatus, ingestLoading, ingestReqs, chatVars,
                   searchVars, monitorVars, issued>>

\* if (!ingestFile) return;
ingestBlocked(file) == ~IsDefined(file)

\* Faulty variant: the previous result is not cleared at invocation.
handleIngestKeepsStatus ==
    /\ IF ingestBlocked(ingestFile)
       THEN UNCHANGED <<ingestVars, issued>>
       ELSE /\ ingestLoading' = TRUE
            /\ ingestReqs' = ingestReqs \cup {[id |-> issued.ingest + 1, file |-> ingestFile[1]]}
            /\ issued' = [issued EXCEPT !.ingest = @ + 1]
            /\ UNCHANGED <<ingestFile, ingestStatus>>
    /\ UNCHANGED <<tab, chatVars, searchVars, monitorVars>>

\* handleIngest up to the await.
handleIngest ==
    /\ IF ingestBlocked(ingestFile)
       THEN UNCHANGED <<ingestVars, issued>>
       ELSE /\ ingestLoading' = TRUE
            /\ ingestStatus' = Undefined        \* setIngestStatus(null)
            /\ ingestReqs' = ingestReqs \cup {[id |-> issued.ingest + 1, file |-> ingestFile[1]]}
            /\ issued' = [issued EXCEPT !.ingest = @ + 1]
            /\ UNCHANGED ingestFile
    /\ UNCHANGED <<tab, chatVars, searchVars, monitorVars>>

\* Faulty variant: the button is never disabled.
ingestButtonClickNotDisabled ==
    /\ tab = "ingest"
    /\ IsDefined(ingestFile)
    /\ handleIngest

\* {ingestFile && (<button onClick={handleIngest} disabled={ingestLoading}>)}
ingestButtonClick ==
    /\ tab = "ingest"
    /\ IsDefined(ingestFile)
    /\ ~ingestLoading
    /\ handleIngest

\* catch (e) { setIngestStatus({ success: false, message: e.message }) }
ingestFailed(message) == IngestBody(Some(FALSE), Some(message), Undefined)

\* try { setIngestStatus(res); ... } catch (e) { ... }
ingestSettled(out) ==
    IF out.rejected THEN ingestFailed(out.message) ELSE out.value

\* Faulty variant: no refresh after an ingest.
ingestRefreshesNever(out) == FALSE

\* if (res.success) { apiHealth().then(setHealth); apiStats().then(setStats); }
ingestRefreshes(out) == ~out.rejected /\ TruthyBool(out.value.success)

\* handleIngest from the await on: the response of req arrives.
handleIngestResume(req, resp) ==
    LET out == apiCall(resp)
        refresh == IF ingestRefreshes(out)
                   THEN {[id |-> req.id, origin |-> "refresh"]} ELSE {}
    IN  /\ req \in ingestReqs
        /\ ingestReqs' = ingestReqs \ {req}
        /\ ingestStatus' = Some(ingestSettled(out))
        /\ healthReqs' = healthReqs \cup refresh
        /\ statsReqs' = statsReqs \cup refresh
        /\ ingestLoading' = FALSE               \* finally
        /\ UNCHANGED <<tab, ingestFile, health, stats, chatVars, searchVars, issued>>

\* startup: apiHealth().then(setHealth).catch(() => setHealth({ status: "unreachable" }))
\* refresh: apiHealth().then(setHealth)  -- a rejection is not handled.
healthSettled(origin, out, current) ==
    IF ~out.rejected THEN Some(out.value)
    ELSE IF origin = "startup" THEN Some(HealthUnreachable)
    ELSE current

apiHealthDone(req, resp) ==
    /\ req \in healthReqs
    /\ healthReqs' = healthReqs \ {req}
    /\ health' = healthSettled(req.origin, apiCall(resp), health)
    /\ UNCHANGED <<tab, stats, statsReqs, chatVars, searchVars, ingestVars, issued>>

\* startup: apiStats().then(setStats).catch(() => {})
\* refresh: apiStats().then(setStats)
statsSettled(origin, out, current) ==
    IF ~out.rejected THEN Some(out.value) ELSE current

apiStatsDone(req, resp) ==
    /\ req \in statsReqs
    /\ statsReqs' = statsReqs \ {req}
    /\ stats' = statsSettled(req.origin, apiCall(resp), stats)
    /\ UNCHANGED <<tab, health, healthReqs, chatVars, searchVars, ingestVars, issued>>

(***************************************************************************)
(* Specifications.  The handlers are unbounded; each specification stops   *)
(* the user after a number of accepted requests.                           *)
(***************************************************************************)
TabStep == \E t \in Tabs : setTab(t)

QueryDone == \E req \in queryReqs, resp \in QueryResponses : handleSendResume(req, resp)

SearchDone == \E req \in searchReqs, resp \in SearchResponses : handleSearchResume(req, resp)

IngestDone == \E req \in ingestReqs, resp \in IngestResponses : handleIngestResume(req, resp)

HealthDone == \E req \in healthReqs, resp \in HealthResponses : apiHealthDone(req, resp)

StatsDone == \E req \in statsReqs, resp \in StatsResponses : apiStatsDone(req, resp)

TotalIssued == issued.query + issued.search + issued.ingest

\* The chat controller alone.
ChatNext ==
    \/ TabStep
    \/ \E text \in Texts : setInput(text)
    \/ handleSend /\ issued.query' <= MaxSubmits
    \/ QueryDone
SpecChat == Init /\ [][ChatNext]_vars
\* Every request issued is answered.
FairSpecChat == SpecChat /\ WF_vars(QueryDone)

\* The search controller alone.
SearchNext ==
    \/ TabStep
    \/ \E text \in Texts : setSearchQuery(text)
    \/ \E k \in KOptions : setSearchK(k)
    \/ searchKeyDownEnter /\ issued.search' <= MaxSearches
    \/ searchButtonClick /\ issued.search' <= MaxSearches
    \/ SearchDone
SpecSearch == Init /\ [][SearchNext]_vars

\* The ingest controller with the health and stats calls.
IngestNext ==
    \/ TabStep
    \/ \E file \in Files : setIngestFile(file)
    \/ ingestButtonClick /\ issued.ingest' <= MaxIngests
    \/ IngestDone
    \/ HealthDone
    \/ StatsDone
SpecIngest == Init /\ [][IngestNext]_vars

\* The badge component on its own.
BadgeNext == \E confidence \in Confidences : renderBadge(confidence) /\ Len(rendered') <= MaxBadges
SpecBadge == Init /\ [][BadgeNext]_vars

\* The whole application; the result-count select keeps its default.
Next ==
    \/ TabStep
    \/ \E text \in Texts : setInput(text)
    \/ handleSend /\ TotalIssued' <= MaxOps
    \/ QueryDone
    \/ \E text \in Texts : setSearchQuery(text)
    \/ searchKeyDownEnter /\ TotalIssued' <= MaxOps
    \/ searchButtonClick /\ TotalIssued' <= MaxOps
    \/ SearchDone
    \/ \E file \in Files : setIngestFile(file)
    \/ ingestButtonClick /\ TotalIssued' <= MaxOps
    \/ IngestDone
    \/ HealthDone
    \/ StatsDone
Spec == Init /\ [][Next]_vars

(***************************************************************************)
(* Properties of the chat controller.                                      *)
(***************************************************************************)
QueriesResolved == issued.query - Cardinality(queryReqs)
LastMessage == messages[Len(messages)]
IsPrefix(s, t) == Len(s) <= Len(t) /\ SubSeq(t, 1, Len(s)) = s

\* C1: the log holds the greeting, two messages for every resolved query and
\* one more while a query is outstanding; once no query is outstanding its
\* length is 1 + 2N for N accepted submits.
C1_LogLength ==
    /\ Len(messages) = 1 + 2 * QueriesResolved + (IF queryReqs # {} THEN 1 ELSE 0)
    /\ queryReqs = {} => Len(messages) = 1 + 2 * issued.query

C1_Witness ==
    queryReqs = {} /\ issued.query = MaxSubmits /\ Len(messages) = 1 + 2 * MaxSubmits

C2_Shape ==
    /\ messages[1] = Greeting
    /\ \A i \in 2..Len(messages) :
           messages[i].role = (IF i % 2 = 0 THEN "user" ELSE "assistant")
    /\ \A req \in queryReqs : LastMessage = UserMessage(req.question)

C2_ReplyStep ==
    \A req \in queryReqs :
        req \notin queryReqs' =>
            /\ LastMessage = UserMessage(req.question)
            /\ Len(messages') = Len(messages) + 1
            /\ IsPrefix(messages, messages')
            /\ messages'[Len(messages')].role = "assistant"

\* C2: the log is the greeting followed by user and assistant messages in
\* strict alternation; while a query is outstanding the last message is the
\* user message of that query, and the step that resolves the query appends
\* one assistant message right after it.
C2_Alternation == [](C2_Shape) /\ [][C2_ReplyStep]_vars

C2_Witness ==
    /\ Len(messages) = 5
    /\ messages[2].role = "user" /\ messages[3].role = "assistant"
    /\ messages[4].role = "user" /\ messages[5].role = "assistant"

\* C3: when every request is answered, a user message at position n of the
\* log is eventually followed by an assistant message at position n + 1.
C3_EventuallyPaired ==
    \A n \in 1..(2 * MaxSubmits) :
        (Len(messages) = n /\ messages[n].role = "user")
            ~> (Len(messages) > n /\ messages[n + 1].role = "assistant")

C3_Witness ==
    \E i \in 1..(Len(messages) - 1) :
        /\ messages[i].role = "user"
        /\ messages[i + 1] = ErrorMessage(FailedToFetch)

\* C4: every step of every controller leaves the previous log a prefix of
\* the new log.
C4_AppendOnly == [][IsPrefix(messages, messages')]_vars

C4_Witness ==
    /\ Len(messages) = 3
    /\ messages[3] = ErrorMessage(UnexpectedToken)
    /\ tab # "chat"

\* C5: a submit while loading is true issues no request and changes neither
\* the log nor the draft; at most one query request is outstanding.
C5_SubmitWhileSending ==
    /\ [](Cardinality(queryReqs) <= 1)
    /\ [][(loading /\ handleSend) => UNCHANGED <<messages, input, queryReqs, issued>>]_vars

C5_Witness ==
    /\ tab = "chat" /\ loading
    /\ Trim(input) # <<>>
    /\ Cardinality(queryReqs) = 1

\* C6: a submit with an empty or blank draft issues no request, appends no
\* message, leaves loading as it was (false when no query is outstanding) and
\* leaves the draft as it was.
C6_BlankSubmit ==
    [][(Trim(input) = <<>> /\ handleSend)
          => UNCHANGED <<messages, input, loading, queryReqs, issued>>]_vars

C6_Witness ==
    tab = "chat" /\ ~loading /\ input = <<" ">> /\ issued.query < MaxSubmits

\* A query fails when the host is unreachable, the status is not 2xx, the body
\* is not JSON, or the body carries a non-empty error field.
QueryFails(resp) ==
    ~resp.reach \/ ~resp.ok \/ ~resp.json \/ TruthyText(resp.body.error)

IsErrorMessage(m) ==
    /\ m.role = "assistant"
    /\ TruthyText(m.content)
    /\ m.confidence = Undefined
    /\ m.sources = Undefined
    /\ m.verified_citations = Undefined

\* C7: the assistant message appended for a failed query has non-empty text
\* and no confidence, sources or verified citations.
C7_FailureMessage ==
    [][\A req \in queryReqs, resp \in QueryResponses :
           (QueryFails(resp) /\ handleSendResume(req, resp))
               => IsErrorMessage(messages'[Len(messages')])]_vars

NotOk(resp) == resp.reach /\ ~resp.ok

\* C8: a response with a status that is not 2xx takes the failure path of the
\* caller: an error message in the log, the synthesized ingest result, empty
\* search results, the unreachable health value at startup.
C8_NotOkFails ==
    [][/\ \A req \in queryReqs, resp \in QueryResponses :
              (NotOk(resp) /\ handleSendResume(req, resp))
                  => IsErrorMessage(messages'[Len(messages')])
       /\ \A req \in ingestReqs, resp \in IngestResponses :
              (NotOk(resp) /\ handleIngestResume(req, resp))
                  => /\ IsDefined(ingestStatus')
                     /\ ingestStatus'[1].success = Some(FALSE)
                     /\ IsDefined(ingestStatus'[1].message)
       /\ \A req \in searchReqs, resp \in SearchResponses :
              (NotOk(resp) /\ handleSearchResume(req, resp))
                  => searchResults' = <<>>
       /\ \A req \in healthReqs, resp \in HealthResponses :
              (NotOk(resp) /\ req.origin = "startup" /\ apiHealthDone(req, resp))
                  => health' = Some(HealthUnreachable)]_vars

\* C9: loading is true exactly while a query request is outstanding.
C9_SendingFlag == loading <=> queryReqs # {}

C9_Witness ==
    /\ ~loading /\ queryReqs = {}
    /\ \E i \in 2..Len(messages) :
           messages[i] \in {ErrorMessage(FailedToFetch), ErrorMessage(<<"e">>),
                            AnswerMessage(QueryAnswer)}

(***************************************************************************)
(* Properties of the search controller.                                    *)
(***************************************************************************)
\* C10: at most one search request is outstanding at any time.
C10_OneSearch == Cardinality(searchReqs) <= 1

\* C12: "No results found" is shown only after a search with a non-empty
\* query was submitted and completed with zero results; never when no search
\* has been submitted.
C12_NoResultsAfterSearch ==
    noResultsShown => (issued.search > 0 /\ searchReqs = {})

\* A request fails when the host is unreachable, the status is not 2xx or the
\* body is not JSON.
CallFails(resp) == ~resp.reach \/ ~resp.ok \/ ~resp.json

ResultList(body) == IF IsDefined(body.results) THEN body.results[1] ELSE <<>>

\* C14: an accepted search empties the results and sets searchLoading; a
\* successful completion replaces the results by exactly the response's list.
C14_SearchReplaces ==
    [][/\ (~searchBlocked(searchQuery, searchLoading) /\ handleSearch)
              => (searchResults' = <<>> /\ searchLoading')
       /\ \A req \in searchReqs, resp \in SearchResponses :
              (~CallFails(resp) /\ handleSearchResume(req, resp))
                  => searchResults' = ResultList(resp.body)]_vars

C14_Witness ==
    /\ issued.search = MaxSearches /\ searchReqs = {}
    /\ searchResults = <<Result("6")>>

(***************************************************************************)
(* Properties of the ingest controller and of the health and stats calls.  *)
(***************************************************************************)
\* C11: ingest requests are serialized: no step taken while ingestLoading is
\* true issues an ingest request, and at most one is outstanding at any time.
C11_OneIngest ==
    /\ [](Cardinality(ingestReqs) <= 1 /\ (ingestLoading <=> ingestReqs # {}))
    /\ [][ingestLoading => ingestReqs' \subseteq ingestReqs]_vars

C11_Witness ==
    /\ tab = "ingest" /\ IsDefined(ingestFile)
    /\ ingestLoading /\ Cardinality(ingestReqs) = 1
    /\ issued.ingest < MaxIngests

\* The response carries success = true.
IngestSucceeds(resp) == ~CallFails(resp) /\ resp.body.success = Some(TRUE)

\* C15: the completion of an ingest with success = true issues exactly one
\* health and one stats request, and no completion of a health or stats
\* request changes the stored ingest result.
C15_RefreshOnSuccess ==
    [][/\ \A req \in ingestReqs, resp \in IngestResponses :
              (IngestSucceeds(resp) /\ handleIngestResume(req, resp))
                  => /\ healthReqs \subseteq healthReqs'
                     /\ Cardinality(healthReqs' \ healthReqs) = 1
                     /\ statsReqs \subseteq statsReqs'
                     /\ Cardinality(statsReqs' \ statsReqs) = 1
                     /\ ingestStatus' = Some(resp.body)
       /\ (HealthDone \/ StatsDone) => ingestStatus' = ingestStatus]_vars

C15_Witness ==
    /\ IsDefined(ingestStatus) /\ ingestStatus[1].success = Some(TRUE)
    /\ healthReqs = {} /\ statsReqs = {}
    /\ IsDefined(health) /\ health[1] = HealthUnreachable

\* C16: the completion of an ingest that failed or carries success = false
\* issues no health and no stats request and stores a result with
\* success = false.
C16_RefreshGated ==
    [][\A req \in ingestReqs, resp \in IngestResponses :
           (~IngestSucceeds(resp) /\ handleIngestResume(req, resp))
               => /\ healthReqs' = healthReqs
                  /\ statsReqs' = statsReqs
                  /\ ingestStatus'[1].success = Some(FALSE)]_vars

\* C17: the completion of a failed ingest stores success = false with a
\* message, and every completion resets ingestLoading.
C17_IngestFailure ==
    [][\A req \in ingestReqs, resp \in IngestResponses :
           handleIngestResume(req, resp)
               => /\ ~ingestLoading'
                  /\ CallFails(resp)
                        => /\ ingestStatus'[1].success = Some(FALSE)
                           /\ TruthyText(ingestStatus'[1].message)]_vars

\* C18 as stated: an accepted ingest leaves the previous result in place, and
\* the result changes only when a request completes.
C18_ResultKept ==
    [][/\ (~ingestBlocked(ingestFile) /\ handleIngest) => ingestStatus' = ingestStatus
       /\ ingestStatus' # ingestStatus => IngestDone]_vars

\* C18: an accepted ingest clears the previous result: while an ingest
\* request is outstanding the result is unset, and it is set only when a
\* request completes.
C18_ResultCleared ==
    /\ [](ingestReqs # {} => ingestStatus = Undefined)
    /\ [][IsDefined(ingestStatus') /\ ingestStatus' # ingestStatus => IngestDone]_vars

C18_Witness ==
    /\ issued.ingest = MaxIngests /\ ingestReqs # {}
    /\ ingestStatus = Undefined

\* The promise of the call rejects.
CallRejects(resp) == ~resp.reach \/ ~resp.json

IsSentinel(h) ==
    /\ IsDefined(h)
    /\ h[1].status = Some("unreachable")
    /\ ~TruthyBool(h[1].documents_loaded)
    /\ ~TruthyBool(h[1].llm_available)

\* C19: the completion of every rejected health call, startup or refresh,
\* sets health to the unreachable sentinel.
C19_HealthSentinel ==
    [][\A req \in healthReqs, resp \in HealthResponses :
           (CallRejects(resp) /\ apiHealthDone(req, resp)) => IsSentinel(health')]_vars

StartupCalls(reqs) == {r \in reqs : r.origin = "startup"}

\* C20: one health and one stats call are issued at start; the completion of
\* a failed startup stats call changes neither stats nor health, and stats
\* leaves the unset state only by a stats call that succeeds.
C20_StartupCalls ==
    /\ Cardinality(StartupCalls(healthReqs)) = 1
    /\ Cardinality(StartupCalls(statsReqs)) = 1
    /\ [][/\ StartupCalls(healthReqs') \subseteq StartupCalls(healthReqs)
          /\ StartupCalls(statsReqs') \subseteq StartupCalls(statsReqs)
          /\ \A req \in StartupCalls(statsReqs), resp \in StatsResponses :
                 (CallFails(resp) /\ apiStatsDone(req, resp))
                     => (stats' = stats /\ health' = health)
          /\ (stats = Undefined /\ stats' # Undefined)
                 => \E req \in statsReqs, resp \in StatsResponses :
                        ~CallFails(resp) /\ apiStatsDone(req, resp)]_vars

(***************************************************************************)
(* Properties across the controllers.                                      *)
(***************************************************************************)
Origins(reqs) == {r.origin : r \in reqs}

\* C21: no field is written by the requests of two controllers: the health
\* calls outstanding at any time were all issued by the same controller, and
\* so were the stats calls.
C21_NoSharedField ==
    /\ Cardinality(Origins(healthReqs)) <= 1
    /\ Cardinality(Origins(statsReqs)) <= 1

ChatStep == handleSend \/ QueryDone

OtherStep ==
    \/ TabStep
    \/ \E text \in Texts : setSearchQuery(text)
    \/ handleSearch
    \/ SearchDone
    \/ \E file \in Files : setIngestFile(file)
    \/ handleIngest
    \/ IngestDone
    \/ HealthDone
    \/ StatsDone

\* C22: the conversation log changes only in steps of the chat controller;
\* every tab, search, ingest, health and stats step leaves it unchanged.
C22_LogOwnedByChat ==
    [][messages' # messages => (ChatStep /\ ~OtherStep)]_vars

C22_Witness ==
    /\ Len(messages) = 3 /\ tab # "chat"
    /\ IsDefined(health) /\ IsDefined(stats)

\* C23: a tab change leaves every outstanding request and every controller's
\* state in place, and a chat, search or ingest response that arrives while
\* another tab is active is applied to the state and resets the flag of its
\* controller.
C23_TabKeepsRequests ==
    [][/\ TabStep => UNCHANGED <<chatVars, searchVars, ingestVars, monitorVars>>
       /\ \A req \in queryReqs, resp \in QueryResponses :
              (tab # "chat" /\ handleSendResume(req, resp))
                  => (messages' = sendSettled(messages, apiCall(resp)) /\ ~loading')
       /\ \A req \in searchReqs, resp \in SearchResponses :
              (tab # "search" /\ handleSearchResume(req, resp))
                  => (searchResults' = searchSettled(apiCall(resp)) /\ ~searchLoading')
       /\ \A req \in ingestReqs, resp \in IngestResponses :
              (tab # "ingest" /\ handleIngestResume(req, resp))
                  => (ingestStatus' = Some(ingestSettled(apiCall(resp)))
                      /\ ~ingestLoading')]_vars

C23_Witness ==
    /\ tab = "stats"
    /\ queryReqs # {} /\ loading

\* C25: the completion of a search that is not the most recently submitted
\* one, arriving after the most recent one completed, leaves the results
\* unchanged.
C25_LatestSearchWins ==
    [][\A req \in searchReqs, resp \in SearchResponses :
           (/\ handleSearchResume(req, resp)
            /\ req.id < issued.search
            /\ \A r \in searchReqs : r.id < issued.search)
               => searchResults' = searchResults]_vars

\* C26: searchLoading is true in every state where a search request is
\* outstanding.
C26_SearchingFlag == searchReqs # {} => searchLoading

(***************************************************************************)
(* Properties of the confidence badge.                                     *)
(***************************************************************************)
Labels == {"high", "medium", "low"}

\* C24: every rendered badge shows the descriptor of its label when the
\* confidence is high, medium or low, and the medium descriptor for every
\* other value, a missing one included.
C24_BadgeDefault ==
    \A i \in 1..Len(rendered) :
        LET confidence == rendered[i].confidence IN
        rendered[i].badge =
            IF IsDefined(confidence) /\ confidence[1] \in Labels
            THEN map[confidence[1]] ELSE map.medium

====
